---- MODULE Spec2Model ----
(***************************************************************************)
(* Model of internal/olm/operator/bundle/install.go: Install.Run and       *)
(* Install.setup, which compose a File-Based Catalog for one bundle either  *)
(* by merging the bundle into a rendered index image                       *)
(* (addBundleToIndexImage) or by building a minimal catalog (createFBC),    *)
(* then validate it (validateFBC), serialize it (stringifyDecConfig) and    *)
(* hand it to the operator installer.                                      *)
(*                                                                         *)
(* A pointer that may be nil is a sequence of length at most one: <<>> is   *)
(* nil, <<v>> points to v.  Names of packages and bundles are strings; a    *)
(* channel name is a sequence of characters, because it is cut out of the   *)
(* comma-separated channels label with strings.Split.                      *)
(***************************************************************************)
EXTENDS Naturals, Sequences, FiniteSets, TLC

VARIABLES
    pc,              \* position in Run/setup
    err,             \* the error that made setup return ("" = none, "panic" = runtime panic)
    indexIsDefault,  \* i.IndexImage == registry.DefaultIndexImage
    skipTLS,         \* i.SkipTLS
    useHTTP,         \* i.UseHTTP
    labels,          \* labels of the bundle image returned by LoadBundle
    csv,             \* bundle.CSV returned by LoadBundle
    hasDBLabel,      \* containertools.DbLocationLabel is on the index image
    hasFBCLabel,     \* containertools.ConfigsLocationLabel is on the index image
    rendered,        \* results of render.Run: [index, bundle], each nil or a snapshot
    before,          \* imageDeclConfig on entry to the latest merge
    declcfg,         \* setup's declcfg pointer
    merges,          \* how many times the merge ran
    buildRan,        \* createFBC was called
    validated,       \* the snapshot validateFBC accepted (nil if none)
    content,         \* setup's content string (a sequence of encoded blobs)
    out,             \* the installer's fields that setup fills in
    installInvoked   \* InstallOperator was called

vars == <<pc, err, indexIsDefault, skipTLS, useHTTP, labels, csv, hasDBLabel, hasFBCLabel, rendered,
          before, declcfg, merges, buildRan, validated, content, out, installInvoked>>

---------------------------------------------------------------------------
(* Bounds and input domains *)

MaxIndexPkgs == 1
MaxBundles == 2
MaxMerges == 2

PkgNames == {"foo", "bar"}
Descriptions == {"", "d"}
CSVNames == {"foo.v1", "bar.v1"}
DefaultChannelName == <<"a">>
\* values of the channels label of a bundle image: "", "a", "a,b", ",a"
ChannelsLabelValues == {<<>>, <<"a">>, <<"a", ",", "b">>, <<",", "a">>}

SeqUpTo(S, n) == UNION {[1..k -> S] : k \in 0..n}

---------------------------------------------------------------------------
(* Declarative config records *)

Package(n, dc, d) ==
    [schema |-> "olm.package", name |-> n, defaultChannel |-> dc, description |-> d]

ChannelEntry(n) == [name |-> n, replaces |-> "", skips |-> <<>>]

Channel(s, n, p, es) == [schema |-> s, name |-> n, package |-> p, entries |-> es]

Bundle(n, p) == [schema |-> "olm.bundle", name |-> n, package |-> p]

Other(p) == [schema |-> "other", package |-> p]

DeclarativeConfig(ps, cs, bs, os) ==
    [Packages |-> ps, Channels |-> cs, Bundles |-> bs, Others |-> os]

PackageSet == {Package(n, DefaultChannelName, d) : n \in PkgNames, d \in Descriptions}

\* strings.Split(s, ",")[0]: the text before the first comma
RECURSIVE SplitFirst(_)
SplitFirst(s) ==
    IF s = <<>> \/ Head(s) = "," THEN <<>>
    ELSE <<Head(s)>> \o SplitFirst(Tail(s))

---------------------------------------------------------------------------
(* External collaborators: what they can return *)

\* operator.LoadBundle reads the CSV and the labels of the bundle image.
CSVs ==
    {[name |-> n,
      installModes |-> {[type |-> "AllNamespaces", supported |-> TRUE],
                        [type |-> "OwnNamespace", supported |-> FALSE]}] : n \in CSVNames}

BundleLabels == [package : PkgNames, channels : ChannelsLabelValues]

NoCSV == [name |-> "", installModes |-> {}]
NoLabels == [package |-> "", channels |-> <<>>]

\* operator.GetSupportedInstallModes keeps the types of the supported modes.
GetSupportedInstallModes(modes) == {m.type : m \in {x \in modes : x.supported}}

\* operator.CatalogNameForPackage derives the catalog source's name from the package name.
CatalogNameForPackage(p) == <<p, "-catalog">>

\* The catalog content an index image may hold for package p: one channel with
\* one entry, the bundle it names and one record of an unknown schema.
IndexBundleName(p) == IF p = "foo" THEN "foo.v0" ELSE "bar.v0"

IndexContents ==
    {[Channels |-> <<>>, Bundles |-> <<>>, Others |-> <<>>]}
    \cup {[Channels |-> <<Channel("olm.channel", DefaultChannelName, p,
                                  <<ChannelEntry(IndexBundleName(p))>>)>>,
           Bundles |-> <<Bundle(IndexBundleName(p), p)>>,
           Others |-> <<Other(p)>>] : p \in PkgNames}

\* action.Render of the index image (successful outcomes).
IndexRenders ==
    {DeclarativeConfig(ps, c.Channels, c.Bundles, c.Others) :
        ps \in SeqUpTo(PackageSet, MaxIndexPkgs), c \in IndexContents}

\* action.Render of the bundle image (successful outcomes).  LoadBundle and
\* Render read the same image, so the rendered records carry that image's CSV
\* name, package and first channel; how many records of each kind the render
\* yields is left open.
BundleRenders(c, l) ==
    {DeclarativeConfig(ps, cs, [k \in 1..nb |-> Bundle(c.name, l.package)], os) :
        ps \in SeqUpTo({Package(l.package, SplitFirst(l.channels), d) : d \in Descriptions}, 1),
        cs \in SeqUpTo({Channel("olm.channel", SplitFirst(l.channels), l.package,
                                <<ChannelEntry(c.name)>>)}, 1),
        nb \in 0..MaxBundles,
        os \in SeqUpTo({Other(l.package)}, 1)}

---------------------------------------------------------------------------
(* Install.setup: which composition path runs *)

\* a routing that looks at the database label only
TakesMergePath_DBLabelOnly(hasDB, hasFBC, isDefault) == hasDB /\ ~isDefault

\* lines 128-129: the merge is taken when a label is present and the index
\* image is not the default one
TakesMergePath(hasDB, hasFBC, isDefault) == (hasDB \/ hasFBC) /\ ~isDefault

\* line 140: the minimal build is taken when the index image is the default one
TakesBuildPath(hasDB, hasFBC, isDefault) == isDefault

---------------------------------------------------------------------------
(* addBundleToIndexImage *)

Failed(e) == [status |-> "error", err |-> e, cfg |-> <<>>]
Panicked == [status |-> "panic", err |-> "panic", cfg |-> <<>>]
Returned(cfg) == [status |-> "ok", err |-> "", cfg |-> <<cfg>>]

\* a presence check that looks at the first package of the index only
packageNotPresent_FirstOnly(imageDeclConfig, bundleDeclConfig) ==
    ~ (/\ Len(bundleDeclConfig.Packages) > 0
       /\ Len(imageDeclConfig.Packages) > 0
       /\ imageDeclConfig.Packages[1] = bundleDeclConfig.Packages[1])

\* a presence check by package name instead of deep equality
packageNotPresent_ByName(imageDeclConfig, bundleDeclConfig) ==
    ~ (/\ Len(bundleDeclConfig.Packages) > 0
       /\ \E k \in 1..Len(imageDeclConfig.Packages) :
              imageDeclConfig.Packages[k].name = bundleDeclConfig.Packages[1].name)

\* lines 238-246
packageNotPresent(imageDeclConfig, bundleDeclConfig) ==
    ~ (/\ Len(bundleDeclConfig.Packages) > 0
       /\ \E k \in 1..Len(imageDeclConfig.Packages) :
              imageDeclConfig.Packages[k] = bundleDeclConfig.Packages[1])

\* a merge that appends the last channel of the bundle snapshot, not the first
mergeBundle_LastChannel(imageDeclConfig, bundleDeclConfig) ==
    IF /\ packageNotPresent(imageDeclConfig, bundleDeclConfig)
       /\ Len(bundleDeclConfig.Bundles) > 0
       /\ Len(bundleDeclConfig.Channels) > 0
    THEN IF Len(bundleDeclConfig.Packages) = 0
         THEN Panicked
         ELSE Returned(
                [Packages |-> Append(imageDeclConfig.Packages, bundleDeclConfig.Packages[1]),
                 Bundles  |-> Append(imageDeclConfig.Bundles, bundleDeclConfig.Bundles[1]),
                 Channels |-> Append(imageDeclConfig.Channels,
                                     bundleDeclConfig.Channels[Len(bundleDeclConfig.Channels)]),
                 Others   |-> IF Len(bundleDeclConfig.Others) > 0
                              THEN Append(imageDeclConfig.Others, bundleDeclConfig.Others[1])
                              ELSE imageDeclConfig.Others])
    ELSE Returned(imageDeclConfig)

\* lines 232-262: the merge of two rendered snapshots.  len(...) < 0 never
\* holds, so there is no bundle-count failure; Packages[0] of an empty slice
\* is an index-out-of-range panic.
mergeBundle(imageDeclConfig, bundleDeclConfig) ==
    IF /\ packageNotPresent(imageDeclConfig, bundleDeclConfig)
       /\ Len(bundleDeclConfig.Bundles) > 0
       /\ Len(bundleDeclConfig.Channels) > 0
    THEN IF Len(bundleDeclConfig.Packages) = 0
         THEN Panicked
         ELSE Returned(
                [Packages |-> Append(imageDeclConfig.Packages, bundleDeclConfig.Packages[1]),
                 Bundles  |-> Append(imageDeclConfig.Bundles, bundleDeclConfig.Bundles[1]),
                 Channels |-> Append(imageDeclConfig.Channels, bundleDeclConfig.Channels[1]),
                 Others   |-> IF Len(bundleDeclConfig.Others) > 0
                              THEN Append(imageDeclConfig.Others, bundleDeclConfig.Others[1])
                              ELSE imageDeclConfig.Others])
    ELSE Returned(imageDeclConfig)

\* lines 208-263; indexRender and bundleRender are the outcomes of the two
\* render.Run calls (nil = the render failed)
addBundleToIndexImage(indexRender, bundleRender) ==
    IF indexRender = <<>> THEN Failed("RenderError")
    ELSE IF bundleRender = <<>> THEN Failed("RenderError")
    ELSE mergeBundle(indexRender[1], bundleRender[1])

---------------------------------------------------------------------------
(* FBCContext.createFBC *)

\* lines 144-160: the FBCContext that setup fills in
FBCContext(l, c) ==
    [Package        |-> l.package,
     DefaultChannel |-> SplitFirst(l.channels),
     ChannelSchema  |-> "olm.channel",
     ChannelName    |-> SplitFirst(l.channels),
     ChannelEntries |-> <<ChannelEntry(c.name)>>]

\* action.Init.Run with no description reader
InitPackage(p, dc) == Package(p, dc, "")

\* a build that appends to the rendered packages and channels instead of
\* replacing them
createFBC_AppendToRendered(f, bundleRender, initOK) ==
    IF bundleRender = <<>> THEN Failed("RenderError")
    ELSE IF Len(bundleRender[1].Bundles) # 1 THEN Failed("UnexpectedBundleCount")
    ELSE IF ~initOK THEN Failed("InitError")
    ELSE Returned(
           [Packages |-> Append(bundleRender[1].Packages, InitPackage(f.Package, f.ChannelName)),
            Channels |-> Append(bundleRender[1].Channels,
                                Channel(f.ChannelSchema, f.ChannelName, f.Package, f.ChannelEntries)),
            Bundles  |-> <<bundleRender[1].Bundles[1]>>,
            Others   |-> bundleRender[1].Others])

\* lines 266-322; bundleRender is the outcome of render.Run, initOK that of init.Run
createFBC(f, bundleRender, initOK) ==
    IF bundleRender = <<>> THEN Failed("RenderError")
    ELSE IF Len(bundleRender[1].Bundles) # 1 THEN Failed("UnexpectedBundleCount")
    ELSE IF ~initOK THEN Failed("InitError")
    ELSE Returned(
           [Packages |-> <<InitPackage(f.Package, f.ChannelName)>>,
            Channels |-> <<Channel(f.ChannelSchema, f.ChannelName, f.Package, f.ChannelEntries)>>,
            Bundles  |-> <<bundleRender[1].Bundles[1]>>,
            Others   |-> bundleRender[1].Others])

---------------------------------------------------------------------------
(* validateFBC and stringifyDecConfig *)

\* declarativeconfig.ConvertToModel and Model.Validate: no duplicate package
\* names, every channel's package exists, every channel entry names a bundle
\* of the same package, every package's default channel is one of its channels.
ValidModel(cfg) ==
    /\ \A i, j \in 1..Len(cfg.Packages) :
           cfg.Packages[i].name = cfg.Packages[j].name => i = j
    /\ \A i \in 1..Len(cfg.Channels) :
           /\ \E k \in 1..Len(cfg.Packages) : cfg.Packages[k].name = cfg.Channels[i].package
           /\ \A e \in 1..Len(cfg.Channels[i].entries) :
                  \E b \in 1..Len(cfg.Bundles) :
                      /\ cfg.Bundles[b].name = cfg.Channels[i].entries[e].name
                      /\ cfg.Bundles[b].package = cfg.Channels[i].package
    /\ \A k \in 1..Len(cfg.Packages) :
           \E i \in 1..Len(cfg.Channels) :
               /\ cfg.Channels[i].package = cfg.Packages[k].name
               /\ cfg.Channels[i].name = cfg.Packages[k].defaultChannel

\* lines 337-351: *declcfg of a nil pointer panics
validateFBC(cfgPtr) ==
    IF cfgPtr = <<>> THEN "panic"
    ELSE IF ValidModel(cfgPtr[1]) THEN "ok"
    ELSE "ValidationError"

\* declarativeconfig.WriteJSON: one encoded blob per record, nothing for an
\* empty snapshot
WriteJSON(cfg) ==
    [k \in 1..Len(cfg.Packages) |-> <<"json", cfg.Packages[k]>>]
    \o [k \in 1..Len(cfg.Channels) |-> <<"json", cfg.Channels[k]>>]
    \o [k \in 1..Len(cfg.Bundles) |-> <<"json", cfg.Bundles[k]>>]
    \o [k \in 1..Len(cfg.Others) |-> <<"json", cfg.Others[k]>>]

\* lines 325-334
stringifyDecConfig(cfg, encodeOK) ==
    IF encodeOK THEN [err |-> "", text |-> WriteJSON(cfg)]
    ELSE [err |-> "EncodingError", text |-> <<>>]

---------------------------------------------------------------------------
(* Install.Run and Install.setup, one action per stage *)

NoOutput ==
    [FBCcontent |-> <<>>, PackageName |-> "", StartingCSV |-> "", Channel |-> <<>>,
     SupportedInstallModes |-> {}, CatalogSourceName |-> <<>>]

Init ==
    /\ pc = "start"
    /\ err = ""
    /\ indexIsDefault \in BOOLEAN
    /\ skipTLS \in BOOLEAN
    /\ useHTTP \in BOOLEAN
    /\ labels = NoLabels
    /\ csv = NoCSV
    /\ hasDBLabel = FALSE
    /\ hasFBCLabel = FALSE
    /\ rendered = [index |-> <<>>, bundle |-> <<>>]
    /\ before = <<>>
    /\ declcfg = <<>>
    /\ merges = 0
    /\ buildRan = FALSE
    /\ validated = <<>>
    /\ content = <<>>
    /\ out = NoOutput
    /\ installInvoked = FALSE

\* setup returns e; Run returns it without calling InstallOperator (lines 84-86)
ReturnError(e) ==
    /\ pc' = IF e = "panic" THEN "panicked" ELSE "failed"
    /\ err' = e

\* lines 92-101: i.BundleAddMode.Validate(), then --skip-tls turns --use-http on
SetupValidateAddMode ==
    /\ pc = "start"
    /\ \E ok \in BOOLEAN :
          IF ok THEN /\ pc' = "addModeOK"
                     /\ err' = err
                     /\ useHTTP' = IF skipTLS THEN TRUE ELSE useHTTP
          ELSE ReturnError("AddModeError") /\ useHTTP' = useHTTP
    /\ UNCHANGED <<indexIsDefault, skipTLS, labels, csv, hasDBLabel, hasFBCLabel, rendered, before,
                   declcfg, merges, buildRan, validated, content, out, installInvoked>>

\* lines 104-112: operator.LoadBundle, then InstallMode.CheckCompatibility
SetupLoadBundle ==
    /\ pc = "addModeOK"
    /\ \/ /\ \E e \in {"LoadBundleError", "InstallModeError"} : ReturnError(e)
          /\ UNCHANGED <<labels, csv>>
       \/ /\ \E l \in BundleLabels, c \in CSVs : labels' = l /\ csv' = c
          /\ pc' = "loaded"
          /\ err' = err
    /\ UNCHANGED <<indexIsDefault, skipTLS, useHTTP, hasDBLabel, hasFBCLabel, rendered, before,
                   declcfg, merges, buildRan, validated, content, out, installInvoked>>

\* lines 119-125: registryutil.GetImageLabels of the index image
SetupGetImageLabels ==
    /\ pc = "loaded"
    /\ \/ /\ ReturnError("LabelError")
          /\ UNCHANGED <<hasDBLabel, hasFBCLabel>>
       \/ /\ hasDBLabel' \in BOOLEAN
          /\ hasFBCLabel' \in BOOLEAN
          /\ pc' = "labelled"
          /\ err' = err
    /\ UNCHANGED <<indexIsDefault, skipTLS, useHTTP, labels, csv, rendered, before,
                   declcfg, merges, buildRan, validated, content, out, installInvoked>>

\* how setup goes on with the result r of a composition path
Composed(r) ==
    /\ declcfg' = r.cfg
    /\ IF r.status = "ok" THEN pc' = "composed" /\ err' = err
       ELSE ReturnError(r.err)

\* lines 128-138: the merge path
SetupMerge ==
    /\ pc = "labelled"
    /\ TakesMergePath(hasDBLabel, hasFBCLabel, indexIsDefault)
    /\ ~TakesBuildPath(hasDBLabel, hasFBCLabel, indexIsDefault)
    /\ \E ir \in {<<>>} \cup {<<x>> : x \in IndexRenders} :
       \E br \in IF ir = <<>> THEN {<<>>}
                 ELSE {<<>>} \cup {<<x>> : x \in BundleRenders(csv, labels)} :
          /\ rendered' = [index |-> ir, bundle |-> br]
          /\ before' = ir
          /\ Composed(addBundleToIndexImage(ir, br))
    /\ merges' = merges + 1
    /\ UNCHANGED <<indexIsDefault, skipTLS, useHTTP, labels, csv, hasDBLabel, hasFBCLabel,
                   buildRan, validated, content, out, installInvoked>>

\* lines 140-170: the minimal build path
SetupBuild ==
    /\ pc = "labelled"
    /\ ~TakesMergePath(hasDBLabel, hasFBCLabel, indexIsDefault)
    /\ TakesBuildPath(hasDBLabel, hasFBCLabel, indexIsDefault)
    /\ \E br \in {<<>>} \cup {<<x>> : x \in BundleRenders(csv, labels)}, initOK \in BOOLEAN :
          /\ rendered' = [index |-> <<>>, bundle |-> br]
          /\ Composed(createFBC(FBCContext(labels, csv), br, initOK))
    /\ buildRan' = TRUE
    /\ UNCHANGED <<indexIsDefault, skipTLS, useHTTP, labels, csv, hasDBLabel, hasFBCLabel, before,
                   merges, validated, content, out, installInvoked>>

\* lines 128-170 when neither condition holds: declcfg stays nil
SetupNoPath ==
    /\ pc = "labelled"
    /\ ~TakesMergePath(hasDBLabel, hasFBCLabel, indexIsDefault)
    /\ ~TakesBuildPath(hasDBLabel, hasFBCLabel, indexIsDefault)
    /\ pc' = "composed"
    /\ UNCHANGED <<err, indexIsDefault, skipTLS, useHTTP, labels, csv, hasDBLabel, hasFBCLabel, rendered, before,
                   declcfg, merges, buildRan, validated, content, out, installInvoked>>

\* a validation step that logs the validation error and goes on
SetupValidate_LogOnly ==
    /\ pc = "composed"
    /\ IF validateFBC(declcfg) = "panic"
       THEN ReturnError("panic") /\ validated' = validated
       ELSE /\ pc' = "validated"
            /\ err' = IF validateFBC(declcfg) = "ok" THEN err ELSE validateFBC(declcfg)
            /\ validated' = IF validateFBC(declcfg) = "ok" THEN declcfg ELSE validated
    /\ UNCHANGED <<indexIsDefault, skipTLS, useHTTP, labels, csv, hasDBLabel, hasFBCLabel, rendered, before,
                   declcfg, merges, buildRan, content, out, installInvoked>>

\* lines 173-176
SetupValidate ==
    /\ pc = "composed"
    /\ IF validateFBC(declcfg) = "ok"
       THEN pc' = "validated" /\ err' = err /\ validated' = declcfg
       ELSE ReturnError(validateFBC(declcfg)) /\ validated' = validated
    /\ UNCHANGED <<indexIsDefault, skipTLS, useHTTP, labels, csv, hasDBLabel, hasFBCLabel, rendered, before,
                   declcfg, merges, buildRan, content, out, installInvoked>>

\* a serialization step without the check for empty content
SetupStringify_NoEmptyCheck ==
    /\ pc = "validated"
    /\ \E encodeOK \in BOOLEAN :
          LET r == stringifyDecConfig(declcfg[1], encodeOK) IN
          /\ content' = r.text
          /\ IF r.err # "" THEN ReturnError(r.err)
             ELSE pc' = "stringified" /\ err' = err
    /\ UNCHANGED <<indexIsDefault, skipTLS, useHTTP, labels, csv, hasDBLabel, hasFBCLabel, rendered, before,
                   declcfg, merges, buildRan, validated, out, installInvoked>>

\* lines 179-188
SetupStringify ==
    /\ pc = "validated"
    /\ \E encodeOK \in BOOLEAN :
          LET r == stringifyDecConfig(declcfg[1], encodeOK) IN
          /\ content' = r.text
          /\ IF r.err # "" THEN ReturnError(r.err)
             ELSE IF r.text = <<>> THEN ReturnError("EmptyOutput")
             ELSE pc' = "stringified" /\ err' = err
    /\ UNCHANGED <<indexIsDefault, skipTLS, useHTTP, labels, csv, hasDBLabel, hasFBCLabel, rendered, before,
                   declcfg, merges, buildRan, validated, out, installInvoked>>

\* lines 192-204.  PackageName is written to the installer and to the catalog
\* creator alike; the creator's BundleImage, FBCdir and FBCfile, which no
\* later step of Run reads, are left out.
SetupCommit ==
    /\ pc = "stringified"
    /\ out' = [FBCcontent            |-> content,
               PackageName           |-> labels.package,
               StartingCSV           |-> csv.name,
               Channel               |-> SplitFirst(labels.channels),
               SupportedInstallModes |-> GetSupportedInstallModes(csv.installModes),
               CatalogSourceName     |-> CatalogNameForPackage(labels.package)]
    /\ pc' = "setupDone"
    /\ UNCHANGED <<err, indexIsDefault, skipTLS, useHTTP, labels, csv, hasDBLabel, hasFBCLabel, rendered, before,
                   declcfg, merges, buildRan, validated, content, installInvoked>>

\* line 87
RunInstallOperator ==
    /\ pc = "setupDone"
    /\ installInvoked' = TRUE
    /\ pc' = "installed"
    /\ UNCHANGED <<err, indexIsDefault, skipTLS, useHTTP, labels, csv, hasDBLabel, hasFBCLabel, rendered, before,
                   declcfg, merges, buildRan, validated, content, out>>

Next ==
    \/ SetupValidateAddMode
    \/ SetupLoadBundle
    \/ SetupGetImageLabels
    \/ SetupMerge
    \/ SetupBuild
    \/ SetupNoPath
    \/ SetupValidate
    \/ SetupStringify
    \/ SetupCommit
    \/ RunInstallOperator

Spec == Init /\ [][Next]_vars

---------------------------------------------------------------------------
(* The merge on its own: addBundleToIndexImage applied to an index snapshot  *)
(* and a bundle snapshot, then again to its own result.                     *)

MergeChannels ==
    {Channel("olm.channel", DefaultChannelName, p, <<ChannelEntry(n)>>) :
        p \in {"foo"}, n \in CSVNames}

MergeBundles == {Bundle(n, "foo") : n \in CSVNames}

\* bundle snapshots of any shape
MergeSources ==
    {DeclarativeConfig(ps, cs, bs, os) :
        ps \in SeqUpTo(PackageSet, 1),
        cs \in SeqUpTo(MergeChannels, 2),
        bs \in SeqUpTo(MergeBundles, MaxBundles),
        os \in SeqUpTo({Other("foo")}, 1)}

MergeInit ==
    /\ pc = "merging"
    /\ err = ""
    /\ indexIsDefault = FALSE
    /\ skipTLS = FALSE
    /\ useHTTP = FALSE
    /\ labels = NoLabels
    /\ csv = NoCSV
    /\ hasDBLabel = FALSE
    /\ hasFBCLabel = FALSE
    /\ \E t \in IndexRenders, s \in MergeSources :
          /\ rendered = [index |-> <<t>>, bundle |-> <<s>>]
          /\ before = <<t>>
          /\ declcfg = <<t>>
    /\ merges = 0
    /\ buildRan = FALSE
    /\ validated = <<>>
    /\ content = <<>>
    /\ out = NoOutput
    /\ installInvoked = FALSE

MergeAgain ==
    /\ pc = "merging"
    /\ merges < MaxMerges
    /\ LET r == addBundleToIndexImage(declcfg, rendered.bundle) IN
          /\ before' = declcfg
          /\ declcfg' = r.cfg
          /\ err' = r.err
          /\ pc' = IF r.status = "ok" THEN "merging" ELSE "panicked"
    /\ merges' = merges + 1
    /\ UNCHANGED <<indexIsDefault, skipTLS, useHTTP, labels, csv, hasDBLabel, hasFBCLabel, rendered,
                   buildRan, validated, content, out, installInvoked>>

MergeNext == MergeAgain

MergeSpec == MergeInit /\ [][MergeNext]_vars

---------------------------------------------------------------------------
(* Properties *)

\* setup has gone past the choice of the composition path
PastRouting ==
    \/ pc \in {"composed", "validated", "stringified", "setupDone", "installed"}
    \/ /\ pc \in {"failed", "panicked"}
       /\ err \notin {"AddModeError", "LoadBundleError", "InstallModeError", "LabelError"}

\* a composition path has rendered the bundle image
BundleRendered == (merges > 0 \/ buildRan) /\ rendered.bundle # <<>>

\* C1: on both composition paths, a bundle render that holds a number of
\* Bundle records other than one makes the composition abort with
\* UnexpectedBundleCount and return no snapshot.
C1_SingleBundleOrAbort ==
    (BundleRendered /\ Len(rendered.bundle[1].Bundles) # 1)
        => (declcfg = <<>> /\ err = "UnexpectedBundleCount")

\* C2 as stated: a database or configs label on the catalog image makes the
\* merge path run and not the minimal build; no label and the default index
\* image make the minimal build run.
C2_LabelsRouteToMerge ==
    PastRouting =>
        /\ (hasDBLabel \/ hasFBCLabel) => (merges = 1 /\ ~buildRan)
        /\ (~hasDBLabel /\ ~hasFBCLabel /\ indexIsDefault) => buildRan

\* C2 amended: a database or configs label on a catalog image that is not the
\* default index image makes the merge path run and not the minimal build; the
\* default index image makes the minimal build run and not the merge, whatever
\* the labels.
C2_Routing ==
    PastRouting =>
        /\ ((hasDBLabel \/ hasFBCLabel) /\ ~indexIsDefault) => (merges = 1 /\ ~buildRan)
        /\ indexIsDefault => (buildRan /\ merges = 0)

C2_Witness ==
    PastRouting /\ hasFBCLabel /\ ~hasDBLabel /\ ~indexIsDefault /\ merges = 1 /\ ~buildRan

\* the first merge has run on an index snapshot none of whose packages equals
\* the bundle snapshot's package
MergedAbsentPackage ==
    /\ merges = 1
    /\ Len(rendered.bundle[1].Packages) > 0
    /\ \A k \in 1..Len(before[1].Packages) :
           before[1].Packages[k] # rendered.bundle[1].Packages[1]

\* the merge returned the index snapshot with the first package, bundle and
\* channel of the bundle snapshot appended
AppendedFirsts ==
    /\ declcfg # <<>>
    /\ Len(declcfg[1].Packages) = Len(before[1].Packages) + 1
    /\ Len(declcfg[1].Bundles) = Len(before[1].Bundles) + 1
    /\ Len(declcfg[1].Channels) = Len(before[1].Channels) + 1
    /\ declcfg[1].Packages[Len(declcfg[1].Packages)] = rendered.bundle[1].Packages[1]
    /\ declcfg[1].Bundles[Len(declcfg[1].Bundles)] = rendered.bundle[1].Bundles[1]
    /\ declcfg[1].Channels[Len(declcfg[1].Channels)] = rendered.bundle[1].Channels[1]

\* C3 as stated: merging a bundle snapshot whose package no package of the
\* index equals makes Packages, Bundles and Channels one longer each, the new
\* last elements being the first elements of the bundle snapshot.  The bundle
\* snapshot is the render of one bundle image and holds exactly one Bundle.
C3_AppendWhenAbsent ==
    (MergedAbsentPackage /\ Len(rendered.bundle[1].Bundles) = 1) => AppendedFirsts

\* C3 amended: the same, for a bundle snapshot that holds at least one Bundle
\* and at least one Channel.
C3_AppendWhenAbsentAndComplete ==
    (/\ MergedAbsentPackage
     /\ Len(rendered.bundle[1].Bundles) > 0
     /\ Len(rendered.bundle[1].Channels) > 0) => AppendedFirsts

C3_Witness ==
    /\ MergedAbsentPackage
    /\ Len(rendered.bundle[1].Channels) = 2
    /\ rendered.bundle[1].Channels[1] # rendered.bundle[1].Channels[2]
    /\ Len(before[1].Packages) > 0
    /\ AppendedFirsts

\* the snapshot that the second merge started from holds a package equal to
\* the bundle snapshot's package
SecondMergeOfPresentPackage ==
    /\ merges = 2
    /\ Len(rendered.bundle[1].Packages) > 0
    /\ \E k \in 1..Len(before[1].Packages) :
           before[1].Packages[k] = rendered.bundle[1].Packages[1]

\* C4: the second of two successive merges of the same bundle snapshot leaves
\* the lengths of Packages, Bundles, Channels and Others unchanged when the
\* result of the first merge holds a package equal to the bundle's package.
C4_SecondMergeKeepsCounts ==
    SecondMergeOfPresentPackage =>
        /\ declcfg # <<>>
        /\ Len(declcfg[1].Packages) = Len(before[1].Packages)
        /\ Len(declcfg[1].Bundles) = Len(before[1].Bundles)
        /\ Len(declcfg[1].Channels) = Len(before[1].Channels)
        /\ Len(declcfg[1].Others) = Len(before[1].Others)

\* the first merge appended the package, behind another one
C4_Witness ==
    /\ SecondMergeOfPresentPackage
    /\ Len(before[1].Packages) = Len(rendered.index[1].Packages) + 1
    /\ Len(before[1].Packages) > 1
    /\ declcfg = before

\* C5: the minimal build returns one Package named after the package label
\* with the first channel as default channel, one "olm.channel" Channel of that
\* name and package with one entry naming the rendered bundle and no replaces
\* or skips, and one Bundle, the rendered one; it returns it whenever the
\* render holds exactly one Bundle and the package is initialised.
C5_MinimalBuildShape ==
    /\ (buildRan /\ declcfg # <<>>) =>
          LET d == declcfg[1]
              p == labels.package
              c == SplitFirst(labels.channels)
              b == rendered.bundle[1].Bundles[1]
          IN /\ Len(rendered.bundle[1].Bundles) = 1
             /\ Len(d.Packages) = 1
             /\ d.Packages[1].name = p
             /\ d.Packages[1].defaultChannel = c
             /\ Len(d.Channels) = 1
             /\ d.Channels[1].schema = "olm.channel"
             /\ d.Channels[1].name = c
             /\ d.Channels[1].package = p
             /\ Len(d.Channels[1].entries) = 1
             /\ d.Channels[1].entries[1].name = b.name
             /\ d.Channels[1].entries[1].replaces = ""
             /\ d.Channels[1].entries[1].skips = <<>>
             /\ Len(d.Bundles) = 1
             /\ d.Bundles[1] = b
    /\ (/\ buildRan
        /\ rendered.bundle # <<>>
        /\ Len(rendered.bundle[1].Bundles) = 1
        /\ err # "InitError") => declcfg # <<>>

\* a build from a render that also held a package and a channel
C5_Witness ==
    /\ buildRan
    /\ declcfg # <<>>
    /\ Len(rendered.bundle[1].Packages) = 1
    /\ Len(rendered.bundle[1].Channels) = 1
    /\ labels.channels = <<"a", ",", "b">>

\* C6: when a stage fails, setup returns the error, the installer's fields
\* keep the values they had before the run and InstallOperator is not called.
C6_AllOrNothing ==
    /\ err # "" => pc \in {"failed", "panicked"}
    /\ err \notin {"", "panic"} => pc = "failed"
    /\ pc \in {"failed", "panicked"} => (err # "" /\ out = NoOutput /\ ~installInvoked)
    /\ (out # NoOutput \/ installInvoked) => pc \in {"setupDone", "installed"}

\* the last stage failed, after a snapshot was composed and validated
C6_Witness ==
    /\ pc = "failed"
    /\ err = "EmptyOutput"
    /\ validated # <<>>
    /\ out = NoOutput

\* stringifyDecConfig has been called
SerializationAttempted ==
    \/ pc \in {"stringified", "setupDone", "installed"}
    \/ err \in {"EncodingError", "EmptyOutput"}

\* C7: when setup succeeds, FBCcontent is the non-empty serialization of the
\* snapshot that validateFBC accepted in this run; no snapshot is serialized
\* that validateFBC did not accept; an empty serialization makes setup fail
\* with EmptyOutput.
C7_ValidatedThenSerialized ==
    /\ pc \in {"setupDone", "installed"} =>
          /\ validated # <<>>
          /\ validated = declcfg
          /\ validateFBC(validated) = "ok"
          /\ out.FBCcontent # <<>>
          /\ out.FBCcontent = WriteJSON(validated[1])
    /\ SerializationAttempted =>
          /\ validated # <<>>
          /\ validated = declcfg
          /\ validateFBC(declcfg) = "ok"
    /\ (SerializationAttempted /\ err # "EncodingError" /\ WriteJSON(declcfg[1]) = <<>>) =>
          (pc = "failed" /\ err = "EmptyOutput")

C7_Witness ==
    /\ pc = "installed"
    /\ merges = 1
    /\ Len(declcfg[1].Packages) > Len(rendered.index[1].Packages)
    /\ out.FBCcontent = WriteJSON(validated[1])
    /\ out.FBCcontent # <<>>

\* C8: a merge of a bundle snapshot without packages returns the index
\* snapshot unchanged and does not fail.
C8_NoPackagesNoChange ==
    (merges = 1 /\ Len(rendered.bundle[1].Packages) = 0)
        => (pc = "merging" /\ err = "" /\ declcfg = rendered.index)

\* the merge ran on an index snapshot that holds a package with the name of the
\* bundle's package that is not equal to it
MergedSameNameDifferentPackage ==
    /\ merges = 1
    /\ rendered.index # <<>>
    /\ rendered.bundle # <<>>
    /\ Len(rendered.bundle[1].Packages) > 0
    /\ \E k \in 1..Len(rendered.index[1].Packages) :
           /\ rendered.index[1].Packages[k].name = rendered.bundle[1].Packages[1].name
           /\ rendered.index[1].Packages[k] # rendered.bundle[1].Packages[1]

\* the merge appended the package, the snapshot holds two packages of that
\* name, and setup fails at validation without producing content
DuplicateRejected ==
    /\ declcfg # <<>>
    /\ Len(declcfg[1].Packages) = Len(rendered.index[1].Packages) + 1
    /\ \E i, j \in 1..Len(declcfg[1].Packages) :
           i # j /\ declcfg[1].Packages[i].name = declcfg[1].Packages[j].name
    /\ \/ pc = "composed"
       \/ pc = "failed" /\ err = "ValidationError"
    /\ content = <<>>
    /\ out.FBCcontent = <<>>

\* C9 as stated: a package of the same name that is not deep-equal is judged
\* absent and appended, the validator rejects the duplicate and setup fails
\* with a ValidationError without catalog content.  The bundle snapshot is the
\* render of one bundle image and holds exactly one Bundle.
C9_SameNameAppendedAndRejected ==
    (MergedSameNameDifferentPackage /\ Len(rendered.bundle[1].Bundles) = 1)
        => DuplicateRejected

\* C9 amended: the same, when no package of the index is deep-equal to the
\* bundle's package and the bundle snapshot holds at least one Bundle and at
\* least one Channel.
C9_SameNameAppendedAndRejectedWhenComplete ==
    (/\ MergedSameNameDifferentPackage
     /\ \A k \in 1..Len(rendered.index[1].Packages) :
            rendered.index[1].Packages[k] # rendered.bundle[1].Packages[1]
     /\ Len(rendered.bundle[1].Bundles) > 0
     /\ Len(rendered.bundle[1].Channels) > 0) => DuplicateRejected

C9_Witness ==
    /\ MergedSameNameDifferentPackage
    /\ Len(rendered.bundle[1].Bundles) = 1
    /\ Len(rendered.bundle[1].Channels) = 1
    /\ Len(rendered.index[1].Channels) = 1
    /\ pc = "failed"
    /\ err = "ValidationError"

\* C10: when setup reaches the validation, exactly one composition path has
\* run and declcfg is the snapshot it produced, not nil.
C10_OnePathBeforeValidation ==
    pc = "composed" => (declcfg # <<>> /\ ((merges = 1) # buildRan))

====
